---- MODULE Spec2Model ----
(***************************************************************************)
(* NYC taxi data pipeline: the DuckDB importer (import_to_duckdb.py), the  *)
(* Postgres parallel import orchestrator (import_to_postgres.py), the      *)
(* monthly file downloader (download_data.py) and the pipeline service     *)
(* that chains them (services.py).                                         *)
(*                                                                         *)
(* A source file is identified by its month number m; its name is          *)
(* yellow_tripdata_YYYY-MM.parquet for the configured year.  A trip row    *)
(* carries the two timestamps the import path looks at: each is "NULL",    *)
(* "naive" (as stored in the parquet file) or "America/New_York" (after    *)
(* tz_localize).  A database table of trips is a bag of rows, each row     *)
(* tagged with the file and position it came from.                         *)
(***************************************************************************)
EXTENDS Integers, Sequences, FiniteSets, Bags, TLC

\* ---- bounds of the model ----
MaxFiles == 2
MaxRows == 1
MaxCalls == 3
MaxRuns == 2
MaxChunks == 1
MaxCallers == 2
MaxApiCalls == 2

VARIABLES
    raw,            \* data/raw: file -> [exists, rows, columns]
    duck_trips,     \* DuckDB table yellow_taxi_trips (bag of rows)
    duck_log,       \* DuckDB table import_log (set of entries)
    duck_calls,     \* number of import_parquet calls made so far
    duck_done,      \* files for which some import_parquet call returned True
    duck_last,      \* the last import_parquet call: arguments, result, state before
    duck_all,       \* import_all_parquet: calls made, last result, ledger before
    pg_trips,       \* Postgres table yellow_taxi_trips (bag of rows)
    pg_log,         \* Postgres table import_log (set of entries)
    main_pc,        \* where import_to_postgres.main is
    runs,           \* number of runs of main started so far
    files,          \* main: the sorted list of parquet files of this run
    fut,            \* main: the future of each submitted file, by position in files
    ok,             \* main: files handled with success so far
    total_rows,     \* main: rows of the files handled with success so far
    main_ret,       \* what the last run of main returned
    run_limit,      \* how many times main is going to be run
    twice,          \* files whose path is handed to the pool twice in a run
    api,            \* TaxiTripService: the requests received and where each one is
    local,          \* downloader: month -> the local file [exists, chunks]
    requests,       \* downloader: month -> number of requests.get calls issued
    dl_count,       \* downloader: month -> [calls, failed, fetched] so far
    dl_last,        \* the last download_month call: month, outcome, result, file before
    plan,           \* download_all_available: configuration, position, lists
    callers,        \* concurrent download_month calls: caller -> position and locals
    pipe            \* PipelineService.run_pipeline: position, downloaded_files, result

duck_vars == <<duck_trips, duck_log, duck_calls, duck_done, duck_last, duck_all>>

pg_vars == <<pg_trips, pg_log, main_pc, runs, files, fut, ok, total_rows, main_ret,
             run_limit, twice, api>>

dl_vars == <<local, requests, dl_count, dl_last, plan, callers>>

vars == <<raw, duck_vars, pg_vars, dl_vars, pipe>>

Files == 1..MaxFiles

\* a path of data/raw with no file behind it
Absent == [exists |-> FALSE, rows |-> << >>, columns |-> {}]

Min(a, b) == IF a < b THEN a ELSE b

\* ---- raw parquet files ----
OkRow == [pickup |-> "naive", dropoff |-> "naive"]
NoPickup == [pickup |-> "NULL", dropoff |-> "naive"]
NoDropoff == [pickup |-> "naive", dropoff |-> "NULL"]

OkRows(n) == [i \in 1..n |-> OkRow]

\* the row lacking a timestamp that may end a file of n complete rows
BadRow(n) == IF n % 2 = 0 THEN NoPickup ELSE NoDropoff

\* a file: n rows with both timestamps, then possibly one row missing one
FileShapes ==
    {OkRows(n) : n \in 0..MaxRows} \cup {OkRows(n) \o <<BadRow(n)>> : n \in 0..MaxRows}

\* the columns of a parquet file of the current vintage, in file order
parquet_columns ==
    <<"VendorID", "tpep_pickup_datetime", "tpep_dropoff_datetime", "passenger_count",
      "trip_distance", "RatecodeID", "store_and_fwd_flag", "PULocationID",
      "DOLocationID", "payment_type", "fare_amount", "extra", "mta_tax", "tip_amount",
      "tolls_amount", "improvement_surcharge", "total_amount", "congestion_surcharge",
      "Airport_fee", "cbd_congestion_fee">>

Range(seq) == {seq[i] : i \in 1..Len(seq)}

\* the columns that files of an earlier vintage may lack
OptionalColumns == {"Airport_fee", "cbd_congestion_fee"}

RawFiles ==
    {[exists |-> TRUE, rows |-> rows, columns |-> Range(parquet_columns)] :
        rows \in FileShapes}

\* files of any vintage: some of the optional columns may be missing
VintageFiles ==
    {[exists |-> TRUE, rows |-> rows, columns |-> Range(parquet_columns) \ missing] :
        rows \in FileShapes, missing \in SUBSET OptionalColumns}

RawDirs == [Files -> RawFiles \cup {Absent}]

\* the row at position i of file f, as a table row
TableRow(f, i, r) == [src |-> f, idx |-> i, pickup |-> r.pickup, dropoff |-> r.dropoff]

\* ---- downloader ----

\* the months of a year: range(1, 12 + 1)
LastMonth == 12

Months == 1..LastMonth

\* a local path with no file, and the complete download of a month's file
NoFile == [exists |-> FALSE, chunks |-> 0]
CompleteFile == [exists |-> TRUE, chunks |-> MaxChunks]

\* file_exists(month): file_path.exists()
file_exists_never(file) == FALSE

file_exists(file) == file.exists

\* r.raise_for_status(): HTTPError for a 4xx or 5xx status
raise_for_status(status) == status >= 400 /\ status < 600

StatusCodes == {200, 204, 304, 404, 500}

\* what one fetch can meet: requests.get raising, a response status, open()
\* failing, f.write or r.iter_content raising at chunk `at`
DlOutcomes ==
    {[net |-> n, status |-> 0, io |-> "none", at |-> 0] :
        n \in {"timeout", "connection_error"}}
    \cup {[net |-> "ok", status |-> st, io |-> "none", at |-> 0] : st \in StatusCodes}
    \cup {[net |-> "ok", status |-> 200, io |-> "open", at |-> 0]}
    \cup {[net |-> "ok", status |-> 200, io |-> io, at |-> k] :
            io \in {"write", "stream"}, k \in 1..MaxChunks}

\* if file_path.exists(): file_path.unlink()
unlink_if_exists_forgotten(file) == file

unlink_if_exists(file) == IF file.exists THEN NoFile ELSE file

\* except requests.exceptions.RequestException: delete the partial file, False
except_RequestException(file) ==
    [file |-> unlink_if_exists(file), result |-> "False", requested |-> TRUE]

\* except Exception: delete the partial file, False
except_Exception(file) ==
    [file |-> unlink_if_exists(file), result |-> "False", requested |-> TRUE]

\* open(file_path, "wb") then n chunks written
written(n) == [exists |-> TRUE, chunks |-> n]

\* download_month(month) on the local file of that month
download_month(file, o) ==
    IF file_exists(file)
    THEN [file |-> file, result |-> "True", requested |-> FALSE]
    ELSE IF o.net # "ok" THEN except_RequestException(file)
    ELSE IF raise_for_status(o.status) THEN except_RequestException(file)
    ELSE IF o.status = 200
         THEN IF o.io = "open" THEN except_Exception(file)
              ELSE IF o.io = "write" THEN except_Exception(written(o.at - 1))
              ELSE IF o.io = "stream" THEN except_RequestException(written(o.at - 1))
              ELSE [file |-> written(MaxChunks), result |-> "True", requested |-> TRUE]
    \* print("Erreur : code ..."), then the function ends without a return
    ELSE [file |-> file, result |-> "None", requested |-> TRUE]

NoOutcome == [net |-> "none", status |-> 0, io |-> "none", at |-> 0]

NoDlCall ==
    [month |-> 0, outcome |-> NoOutcome, result |-> "none", requested |-> FALSE,
     before |-> NoFile]

\* a reading of datetime.now() that did not take place
NotRead == [year |-> 0, month |-> 0]

\* download_all_available before it is called: the configured year is filled
\* in by the initial state or by the constructor; at85 and at88 are the
\* readings of datetime.now() taken at lines 85 and 88
NoPlan ==
    [pc |-> "idle", year |-> 0, at85 |-> NotRead, at88 |-> NotRead,
     month_list |-> << >>, next |-> 0, liste_fichiers |-> << >>, invoked |-> << >>]

\* the threads or processes that may call download_month at the same time
Callers == 1..MaxCallers

\* a caller that is not inside download_month; orphan tells that the file it
\* has open was unlinked from its path by another caller
IdleCaller ==
    [pc |-> "idle", month |-> 0, outcome |-> NoOutcome, k |-> 0, orphan |-> FALSE,
     result |-> "none", skipped |-> FALSE, saw |-> NoFile]

NoCallers == [p \in Callers |-> IdleCaller]

DlInitVars ==
    /\ local = [m \in Months |-> NoFile]
    /\ requests = [m \in Months |-> 0]
    /\ dl_count = [m \in Months |-> [calls |-> 0, failed |-> 0, fetched |-> FALSE]]
    /\ dl_last = NoDlCall
    /\ callers = NoCallers
    /\ plan = NoPlan

\* the effect of one download_month(m) call on the downloader's state
DoDownload(m, o) ==
    LET r == download_month(local[m], o)
    IN  /\ local' = [local EXCEPT ![m] = r.file]
        /\ requests' = [requests EXCEPT ![m] = @ + (IF r.requested THEN 1 ELSE 0)]
        /\ dl_count' = [dl_count EXCEPT
                ![m].calls = @ + 1,
                ![m].failed = @ + (IF r.result = "True" THEN 0 ELSE 1),
                ![m].fetched = @ \/ (r.result = "True" /\ r.requested)]
        /\ dl_last' = [month |-> m, outcome |-> o, result |-> r.result,
                       requested |-> r.requested, before |-> local[m]]

\* number of download_month calls made so far for the months of S
RECURSIVE CallsMade(_)
CallsMade(S) ==
    IF S = {} THEN 0
    ELSE LET m == CHOOSE x \in S : TRUE
         IN  dl_count[m].calls + CallsMade(S \ {m})

\* a direct call downloader.download_month(m)
DownloadMonth(m, o) ==
    /\ CallsMade(Months) < MaxCalls
    /\ DoDownload(m, o)
    /\ UNCHANGED <<raw, pipe, duck_vars, pg_vars, plan, callers>>

\* ---- DuckDB importer ----

\* sorted(parquet_dir.glob("*.parquet")): file names sort like their months
RECURSIVE sorted(_)
sorted(S) ==
    IF S = {} THEN << >>
    ELSE LET m == CHOOSE x \in S : \A y \in S : x <= y
         IN  <<m>> \o sorted(S \ {m})

\* CREATE TABLE IF NOT EXISTS yellow_taxi_trips (...): the columns of the table
duck_table_columns ==
    <<"VendorID", "tpep_pickup_datetime", "tpep_dropoff_datetime", "passenger_count",
      "trip_distance", "RatecodeID", "store_and_fwd_flag", "PULocationID",
      "DOLocationID", "payment_type", "fare_amount", "extra", "mta_tax", "tip_amount",
      "tolls_amount", "improvement_surcharge", "total_amount", "congestion_surcharge",
      "Airport_fee", "cdb_congestion_fee">>

\* INSERT INTO yellow_taxi_trips SELECT * FROM read_parquet(file) binds the
\* columns of the file to those of the table by position: the statement is
\* accepted only when the file supplies as many columns as the table has
binds(columns) == Cardinality(columns) = Len(duck_table_columns)

\* SELECT COUNT(*) FROM yellow_taxi_trips
count_rows(trips) == BagCardinality(trips)

\* SELECT COUNT(*) FROM import_log WHERE file_name = ? ... > 0
is_file_imported_never(log, file_name) == FALSE

is_file_imported(log, file_name) ==
    Cardinality({e \in log : e.file_name = file_name}) > 0

\* INSERT INTO yellow_taxi_trips SELECT * FROM read_parquet(file): the first k
\* rows of the file reach the table (k = all of them unless the load fails)
insert_rows(trips, f, rows, k) ==
    trips (+) SetToBag({TableRow(f, i, rows[i]) : i \in 1..k})

\* conn.rollback(): the state at begin() is restored
rollback_keep(snapshot, txn) == txn

rollback(snapshot, txn) == snapshot

\* conn.commit()
commit(snapshot, txn) == txn

\* conn.commit() raising: DuckDB ends the transaction of a failed COMMIT and
\* keeps none of its changes
commit_fails(snapshot, txn) == snapshot

\* the points of import_parquet where the store or the file can raise
DuckFaults ==
    {[step |-> s, k |-> 0] :
        s \in {"none", "count_before", "count_after", "log_insert", "commit"}}
    \cup {[step |-> "insert", k |-> k] : k \in 0..MaxRows}

\* import_parquet(file_path): db is [trips, log]; now is CURRENT_TIMESTAMP.
\* An exception raised inside the transaction is answered by conn.rollback()
\* and False.  When it is conn.commit() that raises, no transaction is active
\* any more when the handler runs: conn.rollback() (line 170) raises
\* TransactionException and that exception leaves import_parquet.
import_parquet(db, f, fault, now) ==
    IF is_file_imported(db.log, f)
    THEN [db |-> db, result |-> "True", skipped |-> TRUE]
    ELSE
      LET snapshot == db
          count_before == count_rows(db.trips)
          readable == raw[f].exists /\ binds(raw[f].columns)
          k == IF ~readable THEN 0
               ELSE IF fault.step = "insert" THEN Min(fault.k, Len(raw[f].rows))
               ELSE Len(raw[f].rows)
          t1 == [db EXCEPT !.trips = insert_rows(db.trips, f, raw[f].rows, k)]
          count_after == count_rows(t1.trips)
          rows_imported == count_after - count_before
          entry == [file_name |-> f, import_date |-> now,
                    rows_imported |-> rows_imported]
          \* file_name is the primary key of import_log
          pk_violation == \E e \in t1.log : e.file_name = f
          t2 == [t1 EXCEPT !.log = @ \cup {entry}]
          failed(txn) == [db |-> rollback(snapshot, txn), result |-> "False",
                          skipped |-> FALSE]
      IN  IF fault.step = "count_before" THEN failed(db)
          ELSE IF ~readable \/ fault.step = "insert" THEN failed(t1)
          ELSE IF fault.step = "count_after" THEN failed(t1)
          ELSE IF fault.step = "log_insert" \/ pk_violation THEN failed(t1)
          ELSE IF fault.step = "commit"
               THEN [db |-> commit_fails(snapshot, t2), result |-> "TransactionException",
                     skipped |-> FALSE]
          ELSE [db |-> commit(snapshot, t2), result |-> "True", skipped |-> FALSE]

NoDuckCall ==
    [file |-> 0, fault |-> [step |-> "none", k |-> 0], result |-> "none",
     skipped |-> FALSE, repeated |-> FALSE,
     trips_before |-> EmptyBag, log_before |-> {}]

\* run_pipeline before it is called
NoPipe ==
    [pc |-> "idle", init_db |-> "not called", downloaded_files |-> "unset",
     ret |-> [kind |-> "none"]]

PipeInitVars == pipe = NoPipe

NoDuckAll ==
    [calls |-> 0, imported_count |-> 0, skipped |-> 0, raised |-> FALSE,
     log_before |-> {}]

DuckInitVars ==
    /\ duck_trips = EmptyBag
    /\ duck_log = {}
    /\ duck_calls = 0
    /\ duck_done = {}
    /\ duck_last = NoDuckCall
    /\ duck_all = NoDuckAll

\* results.first() when no row has the id
NoTrip == [src |-> 0, idx |-> 0, pickup |-> "NULL", dropoff |-> "NULL", cols |-> << >>]

\* an id that no row has
NoTripId == [src |-> 0, idx |-> 0]

\* a request without payload
NoPayload == [pickup |-> "unset", dropoff |-> "unset"]

\* a request of the API that has not arrived: where it is in its service
\* method, the method, the id it designates, the row its session loaded,
\* its payload and its outcome
NoRequest ==
    [pc |-> "idle", op |-> "none", trip_id |-> NoTripId, existing_trip |-> NoTrip,
     trip |-> NoPayload, result |-> "none"]

\* TaxiTripService before any request: requests arrived, values taken from
\* the id sequence, and the requests by order of arrival
NoApiCall ==
    [calls |-> 0, created |-> 0, req |-> [q \in 1..MaxApiCalls |-> NoRequest]]

\* the Postgres side before init_db() has ever run
PgInitTables ==
    /\ api = NoApiCall
    /\ pg_trips = EmptyBag
    /\ pg_log = {}
    /\ main_pc = "idle"
    /\ runs = 0
    /\ files = << >>
    /\ fut = << >>
    /\ ok = 0
    /\ total_rows = 0
    /\ main_ret = [kind |-> "none", files_imported |-> 0, total_rows |-> 0]

PgInitVars ==
    /\ PgInitTables
    /\ run_limit = 0
    /\ twice = {}

DuckInit ==
    /\ raw \in RawDirs
    /\ DuckInitVars
    /\ PipeInitVars
    /\ PgInitVars
    /\ DlInitVars

\* one call importer.import_parquet(data/raw/<file f>)
DuckImportParquet(f, fault) ==
    /\ duck_calls < MaxCalls
    /\ LET r == import_parquet([trips |-> duck_trips, log |-> duck_log], f, fault,
                               duck_calls + 1)
       IN  /\ duck_trips' = r.db.trips
           /\ duck_log' = r.db.log
           /\ duck_done' = IF r.result = "True" THEN duck_done \cup {f} ELSE duck_done
           /\ duck_last' = [file |-> f, fault |-> fault, result |-> r.result,
                            skipped |-> r.skipped, repeated |-> f \in duck_done,
                            trips_before |-> duck_trips, log_before |-> duck_log]
    /\ duck_calls' = duck_calls + 1
    /\ UNCHANGED <<raw, pipe, pg_vars, dl_vars, duck_all>>

DuckNext == \E f \in Files, fault \in DuckFaults : DuckImportParquet(f, fault)

SpecDuck == DuckInit /\ [][DuckNext]_vars

\* data/raw holding files of several vintages
VintageDirs == [Files -> VintageFiles \cup {Absent}]

\* import_parquet called over a directory with files of several vintages
DuckVintageInit ==
    /\ raw \in VintageDirs
    /\ DuckInitVars
    /\ PipeInitVars
    /\ PgInitVars
    /\ DlInitVars

SpecDuckVintage == DuckVintageInit /\ [][DuckNext]_vars

\* import_all_parquet, lines 190-193: the loop over the sorted files, from
\* the store db and the counters acc = [imported_count, skipped]; faults gives,
\* for each file, where its import_parquet call fails, if it does.  The loop
\* has no try: an exception leaving import_parquet ends it, the files after
\* that one are not processed and no count is returned.
RECURSIVE import_all_loop(_, _, _, _, _)
import_all_loop(db, parquet_files, faults, now, acc) ==
    IF parquet_files = << >> THEN [db |-> db, acc |-> acc, raised |-> FALSE]
    ELSE LET file_path == Head(parquet_files)
             r == import_parquet(db, file_path, faults[file_path], now)
         IN  IF r.result \notin {"True", "False"}
             THEN [db |-> r.db, acc |-> acc, raised |-> TRUE]
             ELSE import_all_loop(r.db, Tail(parquet_files), faults, now,
                     [imported_count |-> IF r.result = "True"
                                         THEN acc.imported_count + 1
                                         ELSE acc.imported_count,
                      skipped |-> IF r.skipped THEN acc.skipped + 1 ELSE acc.skipped])

\* import_all_parquet(data_dir)
import_all_parquet(db, faults, now) ==
    import_all_loop(db, sorted({f \in Files : raw[f].exists}), faults, now,
                    [imported_count |-> 0, skipped |-> 0])

\* one call importer.import_all_parquet(data/raw)
DuckImportAll(faults) ==
    /\ duck_all.calls < MaxRuns
    /\ LET r == import_all_parquet([trips |-> duck_trips, log |-> duck_log], faults,
                                   duck_all.calls + 1)
       IN  /\ duck_trips' = r.db.trips
           /\ duck_log' = r.db.log
           /\ duck_all' = [calls |-> duck_all.calls + 1,
                           imported_count |-> r.acc.imported_count,
                           skipped |-> r.acc.skipped,
                           raised |-> r.raised,
                           log_before |-> duck_log]
    /\ UNCHANGED <<raw, pipe, pg_vars, dl_vars, duck_calls, duck_done, duck_last>>

DuckAllNext == \E faults \in [Files -> DuckFaults] : DuckImportAll(faults)

\* import_all_parquet called again and again over the same directory
SpecDuckAll == DuckInit /\ [][DuckAllNext]_vars

\* ---- Postgres importer ----

\* ThreadPoolExecutor(max_workers=4)
max_workers == 4

\* main, line 144: the paths handed to ex.submit, in order; main submits each
\* listed file once, a caller that hands a path twice gets two tasks for it
RECURSIVE submissions(_)
submissions(listing) ==
    IF listing = << >> THEN << >>
    ELSE LET f == Head(listing)
         IN  (IF f \in twice THEN <<f, f>> ELSE <<f>>) \o submissions(Tail(listing))

\* clean_df, lines 16-37: column_mapping
column_mapping ==
    [c \in Range(parquet_columns) |->
        CASE c = "VendorID" -> "vendor_id"
          [] c = "RatecodeID" -> "ratecode_id"
          [] c = "PULocationID" -> "pu_location_id"
          [] c = "DOLocationID" -> "do_location_id"
          [] c = "Airport_fee" -> "airport_fee"
          [] OTHER -> c]

\* df.rename(columns=column_mapping), on the columns of the dataframe
rename(columns) ==
    {IF c \in DOMAIN column_mapping THEN column_mapping[c] ELSE c : c \in columns}

\* import_parquet_copy, lines 73-94: the columns of the destination table
target_cols ==
    <<"vendor_id", "tpep_pickup_datetime", "tpep_dropoff_datetime", "passenger_count",
      "trip_distance", "ratecode_id", "store_and_fwd_flag", "pu_location_id",
      "do_location_id", "payment_type", "fare_amount", "extra", "mta_tax", "tip_amount",
      "tolls_amount", "improvement_surcharge", "total_amount", "congestion_surcharge",
      "airport_fee", "cbd_congestion_fee">>

\* line 96: cols = [c for c in target_cols if c in df.columns]
cols(df_columns) == SelectSeq(target_cols, LAMBDA c : c \in df_columns)

\* pd.read_parquet(file_path): the rows of the file, each with its position
read_parquet(f) ==
    [i \in 1..Len(raw[f].rows) |->
        [idx |-> i, pickup |-> raw[f].rows[i].pickup, dropoff |-> raw[f].rows[i].dropoff]]

\* df.dropna(subset=["tpep_pickup_datetime", "tpep_dropoff_datetime"])
dropna_pickup_only(df) == SelectSeq(df, LAMBDA r : r.pickup # "NULL")

dropna(df) == SelectSeq(df, LAMBDA r : r.pickup # "NULL" /\ r.dropoff # "NULL")

\* .dt.tz_localize("America/New_York"): a missing value stays missing
tz_localize(t) == IF t = "NULL" THEN "NULL" ELSE "America/New_York"

\* clean_df(file_path)
clean_df(f) ==
    LET df == dropna(read_parquet(f))
    IN  [i \in 1..Len(df) |->
            [idx |-> df[i].idx, pickup |-> tz_localize(df[i].pickup),
             dropoff |-> tz_localize(df[i].dropoff)]]

\* the COPY without raw_conn.commit(): the rows never become visible
copy_expert_uncommitted(trips, f, df) == trips

\* COPY yellow_taxi_trips (cols) FROM STDIN, then raw_conn.commit(): each row
\* records the columns it was loaded with; the other columns are left null
copy_expert(trips, f, df) ==
    LET loaded == cols(rename(raw[f].columns))
    IN  trips (+) SetToBag({TableRow(f, df[i].idx, df[i]) @@ [cols |-> loaded] :
                            i \in 1..Len(df)})

\* what import_parquet_copy returns: a row count or None
IntResult(n) == [tag |-> "int", val |-> n]
None == [tag |-> "None", val |-> 0]

\* the points of import_parquet_copy where the file or the store can raise
TaskFaults == {"none", "read", "copy"}

\* import_parquet_copy(file_path): every exception ends in "return None"
import_parquet_copy(trips, f, fault) ==
    IF fault = "read" \/ ~raw[f].exists
    THEN [trips |-> trips, result |-> None]
    ELSE LET df == clean_df(f)
         IN  IF Len(df) = 0 THEN [trips |-> trips, result |-> IntResult(0)]
             ELSE IF fault = "copy" THEN [trips |-> trips, result |-> None]
             ELSE [trips |-> copy_expert(trips, f, df), result |-> IntResult(Len(df))]

\* log_import(file_name, rows_imported): session.add + commit; the commit raises
\* when the store fails or when file_name (the primary key) is already there
LogFaults == {"none", "db_error"}

log_import_upsert(log, file_name, rows_imported, now, fault) ==
    IF fault = "db_error"
    THEN [log |-> log, raised |-> TRUE]
    ELSE [log |-> {e \in log : e.file_name # file_name}
                  \cup {[file_name |-> file_name, import_date |-> now,
                          rows_imported |-> rows_imported]},
          raised |-> FALSE]

log_import_no_pk(log, file_name, rows_imported, now, fault) ==
    IF fault = "db_error"
    THEN [log |-> log, raised |-> TRUE]
    ELSE [log |-> log \cup {[file_name |-> file_name, import_date |-> now,
                              rows_imported |-> rows_imported]},
          raised |-> FALSE]

log_import(log, file_name, rows_imported, now, fault) ==
    IF fault = "db_error" \/ (\E e \in log : e.file_name = file_name)
    THEN [log |-> log, raised |-> TRUE]
    ELSE [log |-> log \cup {[file_name |-> file_name, import_date |-> now,
                              rows_imported |-> rows_imported]},
          raised |-> FALSE]

\* the try/except around the handling of one future: whether an exception
\* raised in it leaves the loop (it does not: it is printed and the loop goes on)
escapes_loop_uncaught(raised) == raised

escapes_loop(raised) == FALSE

\* seq is the position of the future in the order as_completed yielded them,
\* attempts the number of times a worker started the task
NewFuture ==
    [state |-> "unsubmitted", result |-> None, faulted |-> FALSE, outcome |-> "pending",
     seq |-> 0, attempts |-> 0]

\* main, line 152: total_rows += rows
add_rows_last(total, rows) == rows

add_rows(total, rows) == total + rows

\* the futures the as_completed loop has handled so far
Handled == {j \in 1..Len(files) : fut[j].state = "collected"}

\* main, lines 129-140: init_db(), the directory listing, the early return
MainStart(init_fails) ==
    /\ main_pc \in {"idle", "returned", "raised"}
    /\ runs < run_limit
    /\ runs' = runs + 1
    /\ ok' = 0
    /\ total_rows' = 0
    /\ IF init_fails
       THEN /\ main_pc' = "raised"
            /\ main_ret' = [kind |-> "init_db raised", files_imported |-> 0,
                            total_rows |-> 0]
            /\ files' = << >>
            /\ fut' = << >>
       ELSE LET listing == submissions(sorted({f \in DOMAIN raw : raw[f].exists}))
            IN  /\ files' = listing
                /\ fut' = [i \in 1..Len(listing) |-> NewFuture]
                /\ IF listing = << >>
                   THEN /\ main_pc' = "returned"
                        /\ main_ret' = [kind |-> "None", files_imported |-> 0,
                                        total_rows |-> 0]
                   ELSE /\ main_pc' = "submitting"
                        /\ main_ret' = [kind |-> "none", files_imported |-> 0,
                                        total_rows |-> 0]
    /\ UNCHANGED <<raw, pipe, api, duck_vars, dl_vars, pg_trips, pg_log, run_limit, twice>>

\* main, line 144: ex.submit(import_parquet_copy, f) for the next file
Submit ==
    /\ main_pc = "submitting"
    /\ LET i == CHOOSE j \in 1..Len(files) :
                    /\ fut[j].state = "unsubmitted"
                    /\ \A k \in 1..(j - 1) : fut[k].state # "unsubmitted"
       IN  /\ fut' = [fut EXCEPT ![i].state = "queued"]
           /\ main_pc' = IF i = Len(files) THEN "collecting" ELSE "submitting"
    /\ UNCHANGED <<raw, pipe, api, duck_vars, dl_vars, pg_trips, pg_log, runs, files, ok, total_rows,
                   main_ret, run_limit, twice>>

Running == {i \in 1..Len(files) : fut[i].state = "running"}

\* ThreadPoolExecutor(max_workers=4): a queued task starts only on a free worker
worker_free_always(running) == TRUE

worker_free(running) == running < max_workers

\* a free worker thread takes the oldest queued task
TaskStart(i) ==
    /\ i \in 1..Len(files)
    /\ fut[i].state = "queued"
    /\ \A k \in 1..(i - 1) : fut[k].state # "queued"
    /\ worker_free(Cardinality(Running))
    /\ fut' = [fut EXCEPT ![i].state = "running", ![i].attempts = @ + 1]
    /\ UNCHANGED <<raw, pipe, api, duck_vars, dl_vars, pg_trips, pg_log, main_pc, runs, files, ok,
                   total_rows, main_ret, run_limit, twice>>

\* the worker runs import_parquet_copy(files[i]) to its return
TaskFinish(i, fault) ==
    /\ i \in 1..Len(files)
    /\ fut[i].state = "running"
    /\ LET r == import_parquet_copy(pg_trips, files[i], fault)
       IN  /\ pg_trips' = r.trips
           /\ fut' = [fut EXCEPT ![i].state = "done", ![i].result = r.result,
                                 ![i].faulted = (fault # "none")]
    /\ UNCHANGED <<raw, pipe, api, duck_vars, dl_vars, pg_log, main_pc, runs, files, ok, total_rows,
                   main_ret, run_limit, twice>>

\* main, line 149: if rows is not None and rows >= 0
is_row_count_any(rows) == TRUE

is_row_count(rows) == rows.tag # "None" /\ rows.val >= 0

\* main, lines 146-155: the body of the as_completed loop for one finished future
Collect(i, fault) ==
    /\ main_pc = "collecting"
    /\ i \in 1..Len(files)
    /\ fut[i].state = "done"
    /\ LET rows == fut[i].result
       IN  IF is_row_count(rows)
           THEN LET l == log_import(pg_log, files[i], rows.val, runs, fault)
                IN  /\ pg_log' = l.log
                    /\ IF l.raised
                       THEN IF escapes_loop(l.raised)
                            THEN /\ main_pc' = "raised"
                                 /\ main_ret' = [kind |-> "loop raised",
                                                 files_imported |-> 0, total_rows |-> 0]
                                 /\ UNCHANGED <<ok, total_rows>>
                                 /\ fut' = [fut EXCEPT ![i].state = "collected",
                                          ![i].seq = Cardinality(Handled) + 1,
                                               ![i].faulted = (fault # "none"),
                                               ![i].outcome = "log_import raised"]
                            ELSE /\ UNCHANGED <<main_pc, main_ret, ok, total_rows>>
                                 /\ fut' = [fut EXCEPT ![i].state = "collected",
                                          ![i].seq = Cardinality(Handled) + 1,
                                               ![i].faulted = (fault # "none"),
                                               ![i].outcome = "log_import raised"]
                       ELSE /\ total_rows' = add_rows(total_rows, rows.val)
                            /\ ok' = ok + 1
                            /\ UNCHANGED <<main_pc, main_ret>>
                            /\ fut' = [fut EXCEPT ![i].state = "collected",
                                          ![i].seq = Cardinality(Handled) + 1,
                                          ![i].faulted = (fault # "none"),
                                          ![i].outcome = "counted"]
           ELSE /\ fut' = [fut EXCEPT ![i].state = "collected",
                                          ![i].seq = Cardinality(Handled) + 1,
                                      ![i].outcome = "task returned None"]
                /\ UNCHANGED <<pg_log, main_pc, main_ret, ok, total_rows>>
    /\ UNCHANGED <<raw, pipe, api, duck_vars, dl_vars, pg_trips, runs, files, run_limit, twice>>

\* main, lines 157-164: every future was handled, the aggregate is returned
MainReturn ==
    /\ main_pc = "collecting"
    /\ \A i \in 1..Len(files) : fut[i].state = "collected"
    /\ main_pc' = "returned"
    /\ main_ret' = [kind |-> "dict", files_imported |-> ok, total_rows |-> total_rows]
    /\ UNCHANGED <<raw, pipe, api, duck_vars, dl_vars, pg_trips, pg_log, runs, files, fut, ok, total_rows,
                   run_limit, twice>>

\* one run of main over a directory, on an empty database
PgInit ==
    /\ raw \in RawDirs
    /\ DuckInitVars
    /\ PipeInitVars
    /\ PgInitTables
    /\ run_limit = 1
    /\ twice = {}
    /\ DlInitVars

PgNext ==
    \/ \E init_fails \in BOOLEAN : MainStart(init_fails)
    \/ Submit
    \/ \E i \in 1..MaxFiles : TaskStart(i)
    \/ \E i \in 1..MaxFiles, fault \in TaskFaults : TaskFinish(i, fault)
    \/ \E i \in 1..MaxFiles, fault \in LogFaults : Collect(i, fault)
    \/ MainReturn

SpecPg == PgInit /\ [][PgNext]_vars

\* main run again and again over the same directory and the same database
PgRerunInit ==
    /\ raw \in RawDirs
    /\ DuckInitVars
    /\ PipeInitVars
    /\ PgInitTables
    /\ run_limit = MaxRuns
    /\ twice = {}
    /\ DlInitVars

SpecPgRerun == PgRerunInit /\ [][PgNext]_vars

\* main run again and again over the same directory and the same database,
\* the files and the store never failing: the only refusals are those of the
\* primary key of import_log
PgRepeatNext ==
    \/ \E init_fails \in BOOLEAN : MainStart(init_fails)
    \/ Submit
    \/ \E i \in 1..MaxFiles : TaskStart(i)
    \/ \E i \in 1..MaxFiles : TaskFinish(i, "none")
    \/ \E i \in 1..MaxFiles : Collect(i, "none")
    \/ MainReturn

SpecPgRepeat == PgRerunInit /\ [][PgRepeatNext]_vars

\* one run of main, on an empty database, over files of several vintages
PgVintageInit ==
    /\ raw \in VintageDirs
    /\ DuckInitVars
    /\ PipeInitVars
    /\ PgInitTables
    /\ run_limit = 1
    /\ twice = {}
    /\ DlInitVars

SpecPgVintage == PgVintageInit /\ [][PgNext]_vars

\* one run of main, on an empty database, in which the path of one of the
\* files is handed to the pool twice: two tasks import the same file name.
\* Neither the files nor the store fail in these runs.
PgTwiceInit ==
    /\ raw \in RawDirs
    /\ DuckInitVars
    /\ PipeInitVars
    /\ PgInitTables
    /\ run_limit = 1
    /\ twice \in {{f} : f \in {g \in Files : raw[g].exists}}
    /\ DlInitVars

PgTwiceNext ==
    \/ \E init_fails \in BOOLEAN : MainStart(init_fails)
    \/ Submit
    \/ \E i \in 1..(MaxFiles + 1) : TaskStart(i)
    \/ \E i \in 1..(MaxFiles + 1) : TaskFinish(i, "none")
    \/ \E i \in 1..(MaxFiles + 1) : Collect(i, "none")
    \/ MainReturn

SpecPgTwice == PgTwiceInit /\ [][PgTwiceNext]_vars

\* one run of main, on an empty database, over a directory with one file more
\* than the pool has workers, each file holding one complete row; a task may
\* fail, the ledger writes do not
PoolFiles == max_workers + 1

PoolInit ==
    /\ raw = [f \in 1..PoolFiles |->
                [exists |-> TRUE, rows |-> OkRows(1), columns |-> Range(parquet_columns)]]
    /\ DuckInitVars
    /\ PipeInitVars
    /\ PgInitTables
    /\ run_limit = 1
    /\ twice = {}
    /\ DlInitVars

PoolNext ==
    \/ \E init_fails \in BOOLEAN : MainStart(init_fails)
    \/ Submit
    \/ \E i \in 1..PoolFiles : TaskStart(i)
    \/ \E i \in 1..PoolFiles, fault \in TaskFaults : TaskFinish(i, fault)
    \/ \E i \in 1..PoolFiles : Collect(i, "none")
    \/ MainReturn

\* the interpreter keeps running: the main thread and the worker threads go on
\* taking steps as long as one of them can
SpecPool == PoolInit /\ [][PoolNext]_vars /\ WF_vars(PoolNext)

\* ---- REST API: TaxiTripService on the Postgres table ----

\* TaxiTripCreate: the timestamps are required; fare_amount, which
\* YellowTaxiTrip declares NOT NULL without a default, is optional in the
\* payload, and so is extra, which stands for the NOT NULL columns declared
\* with Field(default=0.0): extra, mta_tax, tip_amount, tolls_amount,
\* improvement_surcharge
TripCreates ==
    {[pickup |-> "naive", dropoff |-> "naive", fare_amount |-> a, extra |-> e] :
        a \in {"given", "None"}, e \in {"given", "None"}}

\* TaxiTripUpdate: every field is optional; a timestamp is left unset, set to
\* null, set to the value the row already has ("same") or set to another
\* datetime (the other fields are not followed)
TripUpdates ==
    {[pickup |-> p, dropoff |-> d] : p, d \in {"unset", "NULL", "same", "naive"}}

\* the rows a request may designate: the id no row has, a row loaded from a
\* file, a row created through the API
TripIds ==
    {NoTripId}
    \cup {[src |-> f, idx |-> i] : f \in 1..MaxFiles, i \in 1..MaxRows}
    \cup {[src |-> 0, idx |-> i] : i \in 1..MaxApiCalls}

\* the id of a row of the table
id(row) == [src |-> row.src, idx |-> row.idx]

\* select(YellowTaxiTrip).where(YellowTaxiTrip.id == trip_id), then
\* results.first(): the row of that id, or None
first(trips, trip_id) ==
    LET results == {r \in BagToSet(trips) : id(r) = trip_id}
    IN  IF results = {} THEN NoTrip ELSE CHOOSE r \in results : TRUE

\* YellowTaxiTrip(**trip.model_dump()) as the INSERT leaves it: a row that
\* comes from no file, with the next value of the id sequence, every column
\* of the table being set (a defaulted column left at None gets 0.0)
NewTrip(trip, serial) ==
    [src |-> 0, idx |-> serial, pickup |-> trip.pickup, dropoff |-> trip.dropoff,
     cols |-> target_cols]

\* for key, value in trip_data.items(): setattr(existing_trip, key, value)
setattr(row, trip) ==
    [row EXCEPT !.pickup = IF trip.pickup \in {"unset", "same"} THEN @ ELSE trip.pickup,
                !.dropoff = IF trip.dropoff \in {"unset", "same"} THEN @ ELSE trip.dropoff]

\* the flush of db.commit() emits an UPDATE only when an attribute was given
\* a value other than the loaded one
changed(trip) == trip.pickup \in {"NULL", "naive"} \/ trip.dropoff \in {"NULL", "naive"}

\* the UPDATE of the flush: SET the changed columns WHERE id = the id of the
\* loaded row, on the row as the table holds it now
update_row(trips, row, trip) ==
    (trips (-) SetToBag({row})) (+) SetToBag({setattr(row, trip)})

\* the request has returned or raised: its local variables are gone
finished(r, result) ==
    [r EXCEPT !.pc = "returned", !.result = result, !.existing_trip = NoTrip,
              !.trip = NoPayload]

\* the part of the state the API requests leave alone
ApiFrame ==
    UNCHANGED <<raw, pipe, duck_vars, dl_vars, pg_log, main_pc, runs, files, fut, ok,
                total_rows, main_ret, run_limit, twice>>

\* POST /api/v1/trips, create_trip lines 35-37: db.add(row); db.commit().
\* The INSERT takes a value of the id sequence; a null fare_amount makes it
\* raise and no row is added.
CreateTrip(trip) ==
    /\ api.calls < MaxApiCalls
    /\ LET q == api.calls + 1
           serial == api.created + 1
           r == [NoRequest EXCEPT !.op = "create_trip",
                                  !.trip_id = [src |-> 0, idx |-> serial],
                                  !.trip = trip]
       IN  IF trip.fare_amount = "None"
           THEN /\ pg_trips' = pg_trips
                /\ api' = [api EXCEPT !.calls = q, !.created = serial,
                                      !.req[q] = finished(r, "IntegrityError")]
           ELSE /\ pg_trips' = pg_trips (+) SetToBag({NewTrip(trip, serial)})
                /\ api' = [api EXCEPT !.calls = q, !.created = serial,
                                      !.req[q] = [r EXCEPT !.pc = "committed"]]
    /\ ApiFrame

\* create_trip lines 38-39: db.refresh(row); return row.  The refresh selects
\* the row by its id and raises when it is gone.
CreateRefresh(q) ==
    /\ api.req[q].op = "create_trip"
    /\ api.req[q].pc = "committed"
    /\ api' = [api EXCEPT !.req[q] =
                  finished(@, IF first(pg_trips, @.trip_id) = NoTrip
                              THEN "InvalidRequestError" ELSE "row")]
    /\ pg_trips' = pg_trips
    /\ ApiFrame

\* PUT /api/v1/trips/{trip_id}, update_trip lines 48-52: the SELECT; None
\* (404) when no row has the id
UpdateSelect(trip_id, trip) ==
    /\ api.calls < MaxApiCalls
    /\ LET q == api.calls + 1
           existing_trip == first(pg_trips, trip_id)
           r == [NoRequest EXCEPT !.op = "update_trip", !.trip_id = trip_id]
       IN  api' = [api EXCEPT !.calls = q,
                              !.req[q] = IF existing_trip = NoTrip
                                         THEN finished(r, "None")
                                         ELSE [r EXCEPT !.pc = "selected",
                                                        !.existing_trip = existing_trip,
                                                        !.trip = trip]]
    /\ pg_trips' = pg_trips
    /\ ApiFrame

\* update_trip lines 53-57: setattr, db.add, db.commit().  No UPDATE is
\* emitted when nothing changed; an UPDATE that matches no row raises
\* StaleDataError; a timestamp set to null makes it raise IntegrityError and
\* the row stays as it was.
UpdateCommit(q) ==
    /\ api.req[q].op = "update_trip"
    /\ api.req[q].pc = "selected"
    /\ LET r == api.req[q]
           row == first(pg_trips, r.trip_id)
       IN  IF ~changed(r.trip)
           THEN /\ pg_trips' = pg_trips
                /\ api' = [api EXCEPT !.req[q].pc = "committed"]
           ELSE IF row = NoTrip
           THEN /\ pg_trips' = pg_trips
                /\ api' = [api EXCEPT !.req[q] = finished(r, "StaleDataError")]
           ELSE IF r.trip.pickup = "NULL" \/ r.trip.dropoff = "NULL"
           THEN /\ pg_trips' = pg_trips
                /\ api' = [api EXCEPT !.req[q] = finished(r, "IntegrityError")]
           ELSE /\ pg_trips' = update_row(pg_trips, row, r.trip)
                /\ api' = [api EXCEPT !.req[q].pc = "committed",
                                      !.req[q].existing_trip = setattr(@, r.trip)]
    /\ ApiFrame

\* update_trip lines 58-59: db.refresh(existing_trip); return existing_trip
UpdateRefresh(q) ==
    /\ api.req[q].op = "update_trip"
    /\ api.req[q].pc = "committed"
    /\ api' = [api EXCEPT !.req[q] =
                  finished(@, IF first(pg_trips, @.trip_id) = NoTrip
                              THEN "InvalidRequestError" ELSE "row")]
    /\ pg_trips' = pg_trips
    /\ ApiFrame

\* DELETE /api/v1/trips/{trip_id}, delete_trip lines 65-69: the SELECT; False
\* (404) when no row has the id
DeleteSelect(trip_id) ==
    /\ api.calls < MaxApiCalls
    /\ LET q == api.calls + 1
           existing_trip == first(pg_trips, trip_id)
           r == [NoRequest EXCEPT !.op = "delete_trip", !.trip_id = trip_id]
       IN  api' = [api EXCEPT !.calls = q,
                              !.req[q] = IF existing_trip = NoTrip
                                         THEN finished(r, "False")
                                         ELSE [r EXCEPT !.pc = "selected",
                                                        !.existing_trip = existing_trip]]
    /\ pg_trips' = pg_trips
    /\ ApiFrame

\* delete_trip lines 70-72: db.delete(existing_trip); db.commit(); return
\* True.  A DELETE that matches no row only warns: True all the same.
DeleteCommit(q) ==
    /\ api.req[q].op = "delete_trip"
    /\ api.req[q].pc = "selected"
    /\ LET row == first(pg_trips, api.req[q].trip_id)
       IN  pg_trips' = IF row = NoTrip THEN pg_trips ELSE pg_trips (-) SetToBag({row})
    /\ api' = [api EXCEPT !.req[q] = finished(@, "True")]
    /\ ApiFrame

\* one run of main over a directory, neither the files nor the store
\* failing, while the API serves requests on the same table (created by an
\* earlier init_db), each request in its own session and thread
ApiNext ==
    \/ PgRepeatNext
    \/ \E trip \in TripCreates : CreateTrip(trip)
    \/ \E q \in 1..MaxApiCalls : CreateRefresh(q)
    \/ \E trip_id \in TripIds, trip \in TripUpdates : UpdateSelect(trip_id, trip)
    \/ \E q \in 1..MaxApiCalls : UpdateCommit(q)
    \/ \E q \in 1..MaxApiCalls : UpdateRefresh(q)
    \/ \E trip_id \in TripIds : DeleteSelect(trip_id)
    \/ \E q \in 1..MaxApiCalls : DeleteCommit(q)

SpecApi == PgInit /\ [][ApiNext]_vars

\* ---- downloader specification ----

\* list(range(a, b)): a, a + 1, ..., b - 1
range(a, b) == [i \in 1..(b - a) |-> a + i - 1]

\* the dates the clock may show during a call: the months of a year and the
\* January that follows
ThisYear == 2025

Clock ==
    {[year |-> ThisYear, month |-> m] : m \in Months}
    \cup {[year |-> ThisYear + 1, month |-> 1]}

\* the month after the one of a
NextMonth(a) ==
    IF a.month = LastMonth THEN [year |-> a.year + 1, month |-> 1]
    ELSE [year |-> a.year, month |-> a.month + 1]

\* the reading after a, taken in the same month or in the next one
Later(a) == {a, NextMonth(a)}

\* lines 85-88: the last month to request; datetime.now() is read at line 85
\* for the year and, when the years agree, again at line 88 for the month
current_month(year, at85, at88) ==
    IF year # at85.year THEN LastMonth ELSE at88.month

\* lines 91-94: the months to request
month_list(cm) == IF cm # 1 THEN range(1, cm + 1) ELSE <<1>>

\* line 88 is reached only when the years agree at line 85
Readings(year, at85, at88) ==
    IF year # at85.year THEN at88 = NotRead ELSE at88 \in Later(at85)

\* download_all_available, lines 85-94, on the downloader p
plan_months(p, at85, at88) ==
    [p EXCEPT !.pc = "loop",
              !.at85 = at85,
              !.at88 = at88,
              !.month_list = month_list(current_month(p.year, at85, at88)),
              !.next = 1,
              !.liste_fichiers = << >>]

\* download_all_available, lines 85-94: the month list is computed
PlanStart(at85, at88) ==
    /\ plan.pc = "idle"
    /\ Readings(plan.year, at85, at88)
    /\ plan' = plan_months(plan, at85, at88)
    /\ UNCHANGED <<raw, pipe, duck_vars, pg_vars, local, requests, dl_count, dl_last, callers>>

\* download_all_available, lines 95-97: one turn of the loop
PlanStep(o) ==
    /\ plan.pc = "loop"
    /\ plan.next <= Len(plan.month_list)
    /\ LET month == plan.month_list[plan.next]
       IN  /\ DoDownload(month, o)
           /\ plan' = [plan EXCEPT !.next = @ + 1,
                                   !.liste_fichiers = Append(@, month),
                                   !.invoked = Append(@, month)]
    /\ UNCHANGED <<raw, pipe, duck_vars, pg_vars, callers>>

\* download_all_available, line 98: return liste_fichiers
PlanReturn ==
    /\ plan.pc = "loop"
    /\ plan.next > Len(plan.month_list)
    /\ plan' = [plan EXCEPT !.pc = "returned"]
    /\ UNCHANGED <<raw, pipe, duck_vars, pg_vars, local, requests, dl_count, dl_last, callers>>

\* the years the downloader is configured for
Years == {ThisYear - 1, ThisYear}

PlanInit ==
    /\ raw \in {[f \in Files |-> Absent]}
    /\ DuckInitVars
    /\ PipeInitVars
    /\ PgInitVars
    /\ local \in {l \in [Months -> {NoFile, CompleteFile}] :
                    \A m \in Months \ {1} : l[m] = NoFile}
    /\ requests = [m \in Months |-> 0]
    /\ dl_count = [m \in Months |-> [calls |-> 0, failed |-> 0, fetched |-> FALSE]]
    /\ dl_last = NoDlCall
    /\ callers = NoCallers
    /\ plan \in {[NoPlan EXCEPT !.year = y] : y \in Years}

\* the dates of the runs: any month for the configured year; when the years
\* differ the month of the run plays no part: January and December
RunDates(year) ==
    {t \in Clock : year # t.year => t.month \in {1, LastMonth}}

PlanNext ==
    \/ \E at85 \in RunDates(plan.year), at88 \in Clock \cup {NotRead} :
          PlanStart(at85, at88)
    \/ \E o \in DlOutcomes : PlanStep(o)
    \/ PlanReturn

SpecPlan == PlanInit /\ [][PlanNext]_vars

\* data/raw before the calls: some months already downloaded by an earlier run
DlInit ==
    /\ raw \in {[f \in Files |-> Absent]}
    /\ DuckInitVars
    /\ PipeInitVars
    /\ PgInitVars
    /\ local \in {l \in [Months -> {NoFile, CompleteFile}] :
                    \A m \in Months \ Files : l[m] = NoFile}
    /\ requests = [m \in Months |-> 0]
    /\ dl_count = [m \in Months |-> [calls |-> 0, failed |-> 0, fetched |-> FALSE]]
    /\ dl_last = NoDlCall
    /\ callers = NoCallers
    /\ plan = NoPlan

DlNext == \E m \in Files, o \in DlOutcomes : DownloadMonth(m, o)

SpecDl == DlInit /\ [][DlNext]_vars

\* ---- downloader: download_month step by step, several callers ----

Max(a, b) == IF a > b THEN a ELSE b

\* lines 65-66 and 72-73: the exception of caller p is caught by one of the
\* two except clauses; nothing has touched the path yet
Cleanup(p) ==
    /\ callers' = [callers EXCEPT ![p].pc = "except"]
    /\ UNCHANGED local

\* lines 68 and 74: if file_path.exists(), the first system call of the
\* except clause; with no file at the path the call returns False (70, 76)
RaceExists(p) ==
    /\ callers[p].pc = "except"
    /\ callers' = [callers EXCEPT ![p] =
                      IF local[callers[p].month].exists
                      THEN [@ EXCEPT !.pc = "unlink"]
                      ELSE [@ EXCEPT !.pc = "returned", !.result = "False"]]
    /\ UNCHANGED <<raw, pipe, duck_vars, pg_vars, local, requests, dl_count, dl_last, plan>>

\* lines 69 and 75: file_path.unlink(), the second system call: the file at
\* the path, whoever created it, is unlinked (the callers still writing to it
\* keep an unlinked file) and False is returned; when another caller has
\* unlinked it since the exists test, unlink raises FileNotFoundError inside
\* the except clause and the exception leaves download_month
RaceUnlink(p) ==
    /\ callers[p].pc = "unlink"
    /\ LET m == callers[p].month
       IN  IF local[m].exists
           THEN /\ local' = [local EXCEPT ![m] = NoFile]
                /\ callers' = [q \in Callers |->
                                 IF q = p
                                 THEN [callers[p] EXCEPT !.pc = "returned",
                                                         !.result = "False"]
                                 ELSE IF callers[q].month = m /\ callers[q].pc = "write"
                                 THEN [callers[q] EXCEPT !.orphan = TRUE]
                                 ELSE callers[q]]
           ELSE /\ callers' = [callers EXCEPT ![p].pc = "raised",
                                              ![p].result = "FileNotFoundError"]
                /\ UNCHANGED local
    /\ UNCHANGED <<raw, pipe, duck_vars, pg_vars, requests, dl_count, dl_last, plan>>

\* download_month, lines 45-47: the file_exists test
RaceCall(p, m) ==
    /\ callers[p].pc = "idle"
    /\ callers' = [callers EXCEPT ![p] =
                      IF file_exists(local[m])
                      THEN [@ EXCEPT !.pc = "returned", !.month = m, !.result = "True",
                                     !.skipped = TRUE, !.saw = local[m]]
                      ELSE [@ EXCEPT !.pc = "get", !.month = m]]
    /\ UNCHANGED <<raw, pipe, duck_vars, pg_vars, local, requests, dl_count, dl_last, plan>>

\* lines 53-55 and 63-64: requests.get, raise_for_status, the status test
RaceGet(p, o) ==
    /\ callers[p].pc = "get"
    /\ requests' = [requests EXCEPT ![callers[p].month] = @ + 1]
    /\ IF o.net # "ok" \/ raise_for_status(o.status)
       THEN Cleanup(p)
       ELSE /\ callers' = [callers EXCEPT ![p] =
                             IF o.status = 200
                             THEN [@ EXCEPT !.pc = "open", !.outcome = o]
                             ELSE [@ EXCEPT !.pc = "returned", !.result = "None"]]
            /\ UNCHANGED local
    /\ UNCHANGED <<raw, pipe, duck_vars, pg_vars, dl_count, dl_last, plan>>

\* line 57: open(file_path, "wb") creates the file or truncates the one there
RaceOpen(p) ==
    /\ callers[p].pc = "open"
    /\ IF callers[p].outcome.io = "open"
       THEN Cleanup(p)
       ELSE /\ local' = [local EXCEPT ![callers[p].month] = written(0)]
            /\ callers' = [callers EXCEPT ![p].pc = "write", ![p].k = 0,
                                          ![p].orphan = FALSE]
    /\ UNCHANGED <<raw, pipe, duck_vars, pg_vars, requests, dl_count, dl_last, plan>>

\* lines 58-61: the next chunk is read and written at this caller's offset;
\* after the last one the file is closed and True is returned
RaceWrite(p) ==
    /\ callers[p].pc = "write"
    /\ LET c == callers[p]
           m == c.month
       IN  IF c.outcome.io \in {"write", "stream"} /\ c.outcome.at = c.k + 1
           THEN Cleanup(p)
           ELSE /\ local' = IF c.orphan \/ ~local[m].exists THEN local
                            ELSE [local EXCEPT ![m] = written(Max(@.chunks, c.k + 1))]
                /\ callers' = [callers EXCEPT ![p] =
                                  IF c.k + 1 = MaxChunks
                                  THEN [@ EXCEPT !.k = c.k + 1, !.pc = "returned",
                                                 !.result = "True"]
                                  ELSE [@ EXCEPT !.k = c.k + 1]]
    /\ UNCHANGED <<raw, pipe, duck_vars, pg_vars, requests, dl_count, dl_last, plan>>

\* several download_month calls at the same time over the same directory
RaceInit ==
    /\ raw \in {[f \in Files |-> Absent]}
    /\ DuckInitVars
    /\ PipeInitVars
    /\ PgInitVars
    /\ DlInitVars

RaceNext ==
    \/ \E p \in Callers, m \in Files : RaceCall(p, m)
    \/ \E p \in Callers, o \in DlOutcomes : RaceGet(p, o)
    \/ \E p \in Callers : RaceOpen(p)
    \/ \E p \in Callers : RaceWrite(p)
    \/ \E p \in Callers : RaceExists(p)
    \/ \E p \in Callers : RaceUnlink(p)

SpecRace == RaceInit /\ [][RaceNext]_vars

\* ---- pipeline: PipelineService.run_pipeline ----

\* download_data.main(): the list of months is printed; the function has no
\* return statement, so the call evaluates to None
download_data(fichiers_telecharges) == None

\* PipelineResponse(status=..., downloaded=..., imported_files=...,
\* imported_rows=...): the three counters are declared int and the model is
\* validated when it is built
PipelineResponse(status, downloaded, imported_files, imported_rows) ==
    IF /\ status \in {"started", "done", "error"}
       /\ downloaded.tag = "int"
       /\ imported_files.tag = "int"
       /\ imported_rows.tag = "int"
    THEN [kind |-> "PipelineResponse", status |-> status,
          downloaded |-> downloaded.val, imported_files |-> imported_files.val,
          imported_rows |-> imported_rows.val]
    ELSE [kind |-> "ValidationError"]

\* run_pipeline has no try/except: an exception init_db() raises leaves it
init_db_swallowed(init_fails) == FALSE

init_db_propagates(init_fails) == init_fails

\* run_pipeline, line 104: init_db()
PipeStart(init_fails) ==
    /\ pipe.pc = "idle"
    /\ pipe' = IF init_db_propagates(init_fails)
               THEN [pipe EXCEPT !.pc = "raised", !.init_db = "raised",
                                 !.ret = [kind |-> "init_db raised"]]
               ELSE [pipe EXCEPT !.pc = "download",
                                 !.init_db = IF init_fails THEN "raised" ELSE "done"]
    /\ UNCHANGED <<raw, duck_vars, pg_vars, dl_vars>>

\* run_pipeline, line 105, inside download_data(): one turn of the loop of
\* download_all_available; a month fetched with success becomes a parquet
\* file of data/raw with the content the archive serves
PipeDownloadStep(o, content) ==
    /\ pipe.pc = "download"
    /\ plan.pc = "loop"
    /\ plan.next <= Len(plan.month_list)
    /\ LET month == plan.month_list[plan.next]
       IN  /\ DoDownload(month, o)
           /\ plan' = [plan EXCEPT !.next = @ + 1,
                                   !.liste_fichiers = Append(@, month),
                                   !.invoked = Append(@, month)]
           /\ raw' = [raw EXCEPT ![month] =
                         IF ~local'[month].exists THEN Absent
                         ELSE IF raw[month].exists THEN raw[month]
                         ELSE content]
    /\ UNCHANGED <<pipe, duck_vars, pg_vars, callers>>

\* run_pipeline, line 105: download_data() returns
PipeDownloaded ==
    /\ pipe.pc = "download"
    /\ plan.pc = "returned"
    /\ pipe' = [pipe EXCEPT !.pc = "import",
                            !.downloaded_files = download_data(plan.liste_fichiers)]
    /\ UNCHANGED <<raw, duck_vars, pg_vars, dl_vars>>

\* run_pipeline, lines 106-111: import_data_to_postgres() has returned or
\* raised; the response is built from its aggregate
PipeReturn ==
    /\ pipe.pc = "import"
    /\ main_pc \in {"returned", "raised"}
    /\ pipe' =
          IF main_pc = "raised"
          THEN [pipe EXCEPT !.pc = "raised",
                            !.ret = [kind |-> "import_data_to_postgres raised"]]
          ELSE IF main_ret.kind # "dict"
          THEN [pipe EXCEPT !.pc = "raised", !.ret = [kind |-> "TypeError"]]
          ELSE LET r == PipelineResponse("done", pipe.downloaded_files,
                                         IntResult(main_ret.files_imported),
                                         IntResult(main_ret.total_rows))
               IN  [pipe EXCEPT !.pc = IF r.kind = "PipelineResponse"
                                       THEN "returned" ELSE "raised",
                                !.ret = r]
    /\ UNCHANGED <<raw, duck_vars, pg_vars, dl_vars>>

\* what the archive serves for a month in the pipeline runs: a file with one
\* complete row, or a file whose only row lacks a timestamp
ArchiveFiles ==
    {[exists |-> TRUE, rows |-> rows, columns |-> Range(parquet_columns)] :
        rows \in {OkRows(1), <<BadRow(0)>>}}

\* how a fetch can end in the pipeline runs: one outcome for each way
\* download_month ends (True, None, False from either except clause)
PipeOutcomes ==
    {[net |-> "ok", status |-> 200, io |-> "none", at |-> 0],
     [net |-> "ok", status |-> 204, io |-> "none", at |-> 0],
     [net |-> "ok", status |-> 404, io |-> "none", at |-> 0],
     [net |-> "ok", status |-> 200, io |-> "write", at |-> 1]}

\* one request POST /api/v1/pipeline/run around the start of a year, on an
\* empty database; the files already in data/raw are complete
PipeInit ==
    /\ raw \in [Files -> ArchiveFiles \cup {Absent}]
    /\ DuckInitVars
    /\ PipeInitVars
    /\ PgInitTables
    /\ run_limit = 1
    /\ twice = {}
    /\ local = [m \in Months |->
                  IF m \in Files /\ raw[m].exists THEN CompleteFile ELSE NoFile]
    /\ requests = [m \in Months |-> 0]
    /\ dl_count = [m \in Months |-> [calls |-> 0, failed |-> 0, fetched |-> FALSE]]
    /\ dl_last = NoDlCall
    /\ callers = NoCallers
    /\ plan = NoPlan

\* NYCTaxiDataDownloader(base_url, data_dir, year): self.year = year
NewDownloader(p, year) == [p EXCEPT !.year = year]

\* the dates the clock may show during the download stage: the December
\* before a year and that year's first months
PipeClock ==
    {[year |-> ThisYear - 1, month |-> LastMonth]}
    \cup {[year |-> ThisYear, month |-> m] : m \in Files}

\* the readings of the clock by download_data.main() at line 106 and by
\* download_all_available at lines 85 and 88, for the runs whose month list
\* stays within the files of data/raw that are followed
PipeReadings ==
    {t \in PipeClock \X PipeClock \X (PipeClock \cup {NotRead}) :
        /\ t[2] \in Later(t[1])
        /\ Readings(t[1].year, t[2], t[3])
        /\ Len(month_list(current_month(t[1].year, t[2], t[3]))) <= MaxFiles}

\* run_pipeline, line 105, inside download_data(): main() builds the
\* downloader for the year the clock shows at line 106 and
\* download_all_available computes its month list (lines 85-94)
PipePlanStart(at106, at85, at88) ==
    /\ pipe.pc = "download"
    /\ plan.pc = "idle"
    /\ plan' = plan_months(NewDownloader(plan, at106.year), at85, at88)
    /\ UNCHANGED <<raw, pipe, duck_vars, pg_vars, local, requests, dl_count, dl_last, callers>>

\* download_all_available leaves its loop
PipePlanReturn == pipe.pc = "download" /\ PlanReturn

\* run_pipeline, line 106: a step of import_data_to_postgres()
PipeImport == pipe.pc = "import" /\ PgNext

PipeNext ==
    \/ \E init_fails \in BOOLEAN : PipeStart(init_fails)
    \/ \E t \in PipeReadings : PipePlanStart(t[1], t[2], t[3])
    \/ \E o \in PipeOutcomes, content \in ArchiveFiles : PipeDownloadStep(o, content)
    \/ PipePlanReturn
    \/ PipeDownloaded
    \/ PipeImport
    \/ PipeReturn

SpecPipe == PipeInit /\ [][PipeNext]_vars

\* ---- DuckDB importer: properties ----

LogEntries(log, f) == {e \in log : e.file_name = f}

\* the rows of a trips table that came from file f
RowsFrom(trips, f) ==
    [r \in {x \in BagToSet(trips) : x.src = f} |-> CopiesIn(r, trips)]

\* number of copies in a trips table of row i of file f
Copies(trips, f, i) ==
    BagCardinality([r \in {x \in BagToSet(trips) : x.src = f /\ x.idx = i}
                     |-> CopiesIn(r, trips)])

\* C1: however often import_parquet is called on a file, import_log holds at
\* most one entry for it; once a call on it has returned True the ledger holds
\* exactly one entry and the trips table holds each row of the file exactly
\* once; and a call made after a successful one returns True and changes
\* neither table.
C1_DuckLedgerExactlyOnce ==
    /\ \A f \in Files :
          /\ Cardinality(LogEntries(duck_log, f)) <= 1
          /\ f \in duck_done =>
                /\ Cardinality(LogEntries(duck_log, f)) = 1
                /\ raw[f].exists
                /\ \A i \in 1..Len(raw[f].rows) : Copies(duck_trips, f, i) = 1
                /\ BagCardinality(RowsFrom(duck_trips, f)) = Len(raw[f].rows)
    /\ duck_last.repeated =>
          /\ duck_last.result = "True"
          /\ duck_last.skipped
          /\ duck_trips = duck_last.trips_before
          /\ duck_log = duck_last.log_before

\* a third call on a file with rows, after a first successful import of it
C1_Witness ==
    /\ duck_last.repeated
    /\ duck_calls = MaxCalls
    /\ duck_last.file \in Files
    /\ Len(raw[duck_last.file].rows) > 0
    /\ duck_last.log_before = duck_log
    /\ Cardinality(duck_log) = 1

\* C3: a call of import_parquet in which the row insert, a row count or the
\* ledger insert fails after begin() returns False, and it leaves the row
\* counts of yellow_taxi_trips and of import_log as they were before the call.
C3_DuckRollback ==
    /\ (/\ duck_last.fault.step \in {"count_before", "insert", "count_after", "log_insert"}
        /\ ~duck_last.skipped) =>
          duck_last.result = "False"
    /\ duck_last.result = "False" =>
          /\ count_rows(duck_trips) = count_rows(duck_last.trips_before)
          /\ Cardinality(duck_log) = Cardinality(duck_last.log_before)

\* the ledger insert fails after the rows of a non-empty file were inserted,
\* in a database that already holds another file
C3_Witness ==
    /\ duck_last.result = "False"
    /\ duck_last.fault.step = "log_insert"
    /\ Len(raw[duck_last.file].rows) > 0
    /\ count_rows(duck_last.trips_before) > 0
    /\ Cardinality(duck_last.log_before) > 0

\* C16: a call of import_all_parquet that returns, returns the number of
\* files it newly imported in that call, the files skipped because the ledger
\* already names them left out; a second call over an unchanged directory
\* returns 0.
C16_ImportAllCountsNewFiles ==
    (duck_all.calls > 0 /\ ~duck_all.raised) =>
        /\ duck_all.imported_count
              = Cardinality({f \in Files : is_file_imported(duck_log, f)
                                           /\ ~is_file_imported(duck_all.log_before, f)})
        /\ (\A f \in Files : raw[f].exists => is_file_imported(duck_all.log_before, f))
              => duck_all.imported_count = 0

\* the optional columns file f lacks
Missing(f) == OptionalColumns \ raw[f].columns

\* C17: a file that lacks optional columns of the destination is imported
\* with success: a fault-free import_parquet call on such a file, not imported
\* before, returns True, leaves each row of the file once in the table and
\* writes the ledger entry of the file.
C17_MissingOptionalColumnImported ==
    LET f == duck_last.file
    IN  (/\ duck_last.result # "none"
         /\ raw[f].exists
         /\ Missing(f) # {}
         /\ duck_last.fault.step = "none"
         /\ ~is_file_imported(duck_last.log_before, f)) =>
            /\ duck_last.result = "True"
            /\ Cardinality(LogEntries(duck_log, f)) = 1
            /\ \A i \in 1..Len(raw[f].rows) : Copies(duck_trips, f, i) = 1

\* ---- REST API: properties ----

\* id is the primary key of yellow_taxi_trips: while each file is loaded once,
\* no two rows of the table have the same id
TripIdsUnique ==
    \A r \in BagToSet(pg_trips) :
        /\ CopiesIn(r, pg_trips) = 1
        /\ \A r2 \in BagToSet(pg_trips) : id(r2) = id(r) => r2 = r

\* ---- Postgres importer: properties ----

\* positions of the rows of file f that have both timestamps
ValidIdx(f) ==
    {i \in 1..Len(raw[f].rows) :
        raw[f].rows[i].pickup # "NULL" /\ raw[f].rows[i].dropoff # "NULL"}

\* file f already had a ledger entry when the current run of main started
LoggedBeforeRun(f) == \E e \in pg_log : e.file_name = f /\ e.import_date < runs

Counted == {i \in 1..Len(files) : fut[i].outcome = "counted"}

\* C2: when main has returned its aggregate, every file of the run that already
\* had an import_log entry before the run, and whose handling met no store or
\* file error, was counted in files_imported, has exactly one ledger entry,
\* and has each of its valid rows exactly once in yellow_taxi_trips.
C2_PgRepresentIsNoOp ==
    (main_pc = "returned" /\ main_ret.kind = "dict") =>
        \A i \in 1..Len(files) :
            (LoggedBeforeRun(files[i]) /\ ~fut[i].faulted) =>
                /\ fut[i].outcome = "counted"
                /\ Cardinality(LogEntries(pg_log, files[i])) = 1
                /\ \A j \in ValidIdx(files[i]) : Copies(pg_trips, files[i], j) = 1

\* C4: once main has finished handling a file, either yellow_taxi_trips holds
\* each valid row of the file exactly once and import_log has exactly one
\* entry for it, or the table holds no row of the file and the ledger has no
\* entry for it.
C4_PgAllOrNothing ==
    \A i \in 1..Len(files) :
        fut[i].state = "collected" =>
            \/ /\ \A j \in ValidIdx(files[i]) : Copies(pg_trips, files[i], j) = 1
               /\ BagCardinality(RowsFrom(pg_trips, files[i]))
                     = Cardinality(ValidIdx(files[i]))
               /\ Cardinality(LogEntries(pg_log, files[i])) = 1
            \/ /\ BagCardinality(RowsFrom(pg_trips, files[i])) = 0
               /\ LogEntries(pg_log, files[i]) = {}

\* C9: a failure in the handling of one file never aborts the batch: no
\* exception leaves the collecting loop, the run can always go on until it
\* returns, and at the return every file was handled, every file whose
\* handling met no error is in the ledger with its count of valid rows, has
\* its valid rows in the table and is counted, and files_imported counts
\* exactly those files.
C9_PgFailureDoesNotAbortBatch ==
    /\ main_ret.kind # "loop raised"
    /\ main_pc \in {"submitting", "collecting"} =>
          ENABLED PgNext
    /\ (main_pc = "returned" /\ main_ret.kind = "dict") =>
          /\ \A i \in 1..Len(files) : fut[i].state = "collected"
          /\ \A i \in 1..Len(files) :
                ~fut[i].faulted =>
                    /\ fut[i].outcome = "counted"
                    /\ \E e \in pg_log :
                          /\ e.file_name = files[i]
                          /\ e.rows_imported = Cardinality(ValidIdx(files[i]))
                    /\ \A j \in ValidIdx(files[i]) : Copies(pg_trips, files[i], j) = 1
          /\ \A i \in 1..Len(files) : fut[i].faulted => fut[i].outcome # "counted"
          /\ main_ret.files_imported = Cardinality(Counted)

\* a run returned its aggregate with the task of one file failed, the ledger
\* write of no file failed, and a later file counted
C9_Witness ==
    /\ main_pc = "returned"
    /\ main_ret.kind = "dict"
    /\ \E i, j \in 1..Len(files) :
          /\ i < j
          /\ fut[i].outcome = "task returned None"
          /\ fut[j].outcome = "counted"
          /\ Cardinality(ValidIdx(files[j])) > 0
    /\ main_ret.files_imported = 1

\* C10: once init_db has succeeded, main returns an aggregate
\* {files_imported, total_rows} whose files_imported is the number of files
\* handled with success, whatever the directory holds.
C10_PgAlwaysReturnsAggregate ==
    main_pc = "returned" =>
        /\ main_ret.kind = "dict"
        /\ main_ret.files_imported = Cardinality(Counted)

\* the sum of rows(i) over the positions i of S
RECURSIVE SumRows(_, _)
SumRows(S, rows) ==
    IF S = {} THEN 0
    ELSE LET i == CHOOSE x \in S : TRUE
         IN  rows[i] + SumRows(S \ {i}, rows)

\* the per-file outcome of the run: the task of position i returned a row
\* count and the ledger write for it was not refused by the store
Succeeded == {i \in 1..Len(files) : fut[i].result.tag = "int" /\ ~fut[i].faulted}

\* C11: the aggregate main returns is a function of the files and of the
\* per-file outcomes alone, whatever the order in which the tasks completed:
\* files_imported is the number of files whose task and ledger write
\* succeeded and total_rows is the sum of the row counts their tasks returned.
C11_AggregateIgnoresCompletionOrder ==
    (main_pc = "returned" /\ main_ret.kind = "dict") =>
        /\ main_ret.files_imported = Cardinality(Succeeded)
        /\ main_ret.total_rows
              = SumRows(Succeeded, [i \in 1..Len(files) |-> fut[i].result.val])

\* a run returned after the later file completed first, the earlier one, with
\* no valid row, last, and both were counted
C11_Witness ==
    /\ main_pc = "returned"
    /\ main_ret.kind = "dict"
    /\ \E i, j \in 1..Len(files) :
          /\ i < j
          /\ fut[i].seq > fut[j].seq
          /\ i \in Succeeded /\ j \in Succeeded
          /\ fut[j].result.val > 0
          /\ fut[i].result.val = 0
    /\ main_ret.total_rows > 0

\* C12: a run of main in which no file was imported before and nothing fails
\* returns files_imported = number of files found and total_rows = number of
\* rows having both timestamps over all files, and leaves in import_log
\* exactly one entry per file, whose rows_imported is the number of valid
\* rows of the file (0 for a file with no valid row, which counts as success).
C12_EndToEndCounts ==
    (main_pc = "returned" /\ main_ret.kind = "dict"
        /\ \A i \in 1..Len(files) : ~fut[i].faulted /\ ~LoggedBeforeRun(files[i])) =>
        /\ main_ret.files_imported = Len(files)
        /\ main_ret.total_rows
              = SumRows(1..Len(files),
                        [i \in 1..Len(files) |-> Cardinality(ValidIdx(files[i]))])
        /\ \A i \in 1..Len(files) :
              LogEntries(pg_log, files[i])
                 = {[file_name |-> files[i], import_date |-> runs,
                     rows_imported |-> Cardinality(ValidIdx(files[i]))]}
        /\ Cardinality(pg_log) = Len(files)

\* a fault-free run over a file with a valid row and a file whose only row
\* lacks a timestamp: two files counted, a ledger entry of 0 rows
C12_Witness ==
    /\ main_pc = "returned"
    /\ main_ret.kind = "dict"
    /\ Len(files) = MaxFiles
    /\ \A i \in 1..Len(files) : ~fut[i].faulted
    /\ \E i, j \in 1..Len(files) :
          /\ Cardinality(ValidIdx(files[i])) > 0
          /\ Len(raw[files[j]].rows) > 0 /\ ValidIdx(files[j]) = {}
          /\ \E e \in pg_log : e.file_name = files[j] /\ e.rows_imported = 0
    /\ main_ret.files_imported = MaxFiles

\* the distinct files of the run
UniqueFiles == {files[i] : i \in 1..Len(files)}

\* the positions of the run that hold file f
Tasks(f) == {i \in 1..Len(files) : files[i] = f}

\* what holds of the pool in every state of a run of main
PoolInvariant ==
    /\ \A i, j \in 1..Len(files) : files[i] = files[j] => i = j
    /\ \A i \in 1..Len(files) :
          /\ fut[i].attempts <= 1
          /\ fut[i].state \in {"running", "done", "collected"} => fut[i].attempts = 1
    /\ Cardinality(Running) <= max_workers
    /\ ok <= Len(files)
    /\ (main_pc = "returned" /\ main_ret.kind = "dict") =>
          /\ UniqueFiles = {f \in DOMAIN raw : raw[f].exists}
          /\ \A i \in 1..Len(files) : fut[i].state = "collected"
          /\ main_ret.files_imported <= Len(files)

\* C22: during one run of main each parquet file of the directory is
\* submitted to the pool once and its task is started once, at most 4 tasks
\* run at the same time, files_imported never exceeds the number of files
\* found, and the run, once past init_db, goes on until every task has
\* completed and was handled, and then returns.
C22_PoolBoundedSingleAttempt ==
    /\ []PoolInvariant
    /\ (main_pc \in {"submitting", "collecting"}) ~> (main_pc = "returned")

\* all the workers of the pool are busy and a submitted task is waiting
C22_Witness ==
    /\ Cardinality(Running) = max_workers
    /\ \E i \in 1..Len(files) : fut[i].state = "queued"
    /\ Len(files) > max_workers

\* C13: when one file is handed to the pool twice next to the other files,
\* the total_rows main returns is the sum of the valid-row counts over the
\* distinct files: the file given twice is counted once, whatever the order in
\* which the tasks completed.
C13_DuplicateCountedOnce ==
    (main_pc = "returned" /\ main_ret.kind = "dict") =>
        main_ret.total_rows
            = SumRows(UniqueFiles, [f \in Files |-> Cardinality(ValidIdx(f))])

\* a run returned in which both tasks of the file given twice returned its
\* (positive) row count, the one collected second was refused by the ledger,
\* and another file was counted too
C13_Witness ==
    /\ main_pc = "returned"
    /\ main_ret.kind = "dict"
    /\ \E f \in UniqueFiles :
          /\ Cardinality(Tasks(f)) = 2
          /\ \A i \in Tasks(f) : fut[i].result.tag = "int" /\ fut[i].result.val > 0
          /\ \E i, j \in Tasks(f) :
                /\ i < j
                /\ fut[i].seq > fut[j].seq
                /\ fut[j].outcome = "counted"
                /\ fut[i].outcome = "log_import raised"
    /\ Cardinality(UniqueFiles) > 1
    /\ main_ret.total_rows > 1

\* C14: two imports of the same file name that overlap in time never leave
\* duplicate data: when the run returns, yellow_taxi_trips holds every valid
\* row of every file exactly once.
C14_OverlappingImportsNoDuplicate ==
    (main_pc = "returned" /\ main_ret.kind = "dict") =>
        \A f \in UniqueFiles :
            /\ \A j \in ValidIdx(f) : Copies(pg_trips, f, j) = 1
            /\ BagCardinality(RowsFrom(pg_trips, f)) = Cardinality(ValidIdx(f))

\* The Postgres path over files lacking optional columns: a file whose task
\* and ledger write met no error is counted and logged, and each of its rows
\* was loaded with exactly the destination columns present in the file, in
\* destination order (the missing ones stay null).
PgLoadsPresentColumns ==
    (main_pc = "returned" /\ main_ret.kind = "dict") =>
        \A i \in 1..Len(files) :
            ~fut[i].faulted =>
                /\ fut[i].outcome = "counted"
                /\ Cardinality(LogEntries(pg_log, files[i])) = 1
                /\ \A r \in BagToSet(pg_trips) :
                      r.src = files[i] =>
                          /\ Range(r.cols) = Range(target_cols) \ rename(Missing(files[i]))
                          /\ \A a, b \in 1..Len(r.cols) :
                                a < b =>
                                    \E x, y \in 1..Len(target_cols) :
                                        /\ x < y
                                        /\ target_cols[x] = r.cols[a]
                                        /\ target_cols[y] = r.cols[b]

PgLoadsPresentColumns_Witness ==
    /\ main_pc = "returned"
    /\ \E i \in 1..Len(files) :
          /\ Missing(files[i]) = OptionalColumns
          /\ fut[i].outcome = "counted"
          /\ fut[i].result.val > 0

\* C18: in every reachable state, between the steps of concurrent workers
\* too, a file that has an entry in import_log has all its valid rows
\* committed in yellow_taxi_trips: the ledger entry is never visible before
\* the rows it accounts for.
C18_LedgerEntryImpliesRows ==
    \A f \in Files :
        /\ LogEntries(pg_log, f) # {} =>
              \A j \in ValidIdx(f) : Copies(pg_trips, f, j) >= 1
        /\ LogEntries(duck_log, f) # {} =>
              \A j \in ValidIdx(f) : Copies(duck_trips, f, j) >= 1

\* in the middle of a run: one file is in the ledger with its rows in the
\* table, the rows of another file are committed and not yet in the ledger
C18_Witness ==
    /\ main_pc = "collecting"
    /\ \E i, j \in 1..Len(files) :
          /\ fut[i].outcome = "counted"
          /\ ValidIdx(files[i]) # {}
          /\ LogEntries(pg_log, files[i]) # {}
          /\ fut[j].state = "done"
          /\ ValidIdx(files[j]) # {}
          /\ LogEntries(pg_log, files[j]) = {}
          /\ \A k \in ValidIdx(files[j]) : Copies(pg_trips, files[j], k) = 1

\* C19: whenever the file_exists test of a download_month call answered
\* True, the local file it saw was a complete download: a file that another
\* download_month call is still streaming is never taken for present.
C19_ExistingFileIsComplete ==
    \A p \in Callers :
        callers[p].skipped => callers[p].saw = CompleteFile

\* C20: when the ledger insert for a file is refused by the uniqueness
\* constraint because another import of the same file name wrote its entry
\* first, the file is still reported as a success: every handled future whose
\* task returned a row count and whose file is in the ledger is counted, and
\* files_imported counts all of them.
C20_UniquenessRejectionIsSuccess ==
    LET InLedger == {i \in 1..Len(files) :
                        /\ fut[i].state = "collected"
                        /\ fut[i].result.tag = "int"
                        /\ LogEntries(pg_log, files[i]) # {}}
    IN  /\ \A i \in InLedger : fut[i].outcome = "counted"
        /\ (main_pc = "returned" /\ main_ret.kind = "dict") =>
              main_ret.files_imported = Cardinality(InLedger)

\* C23: no import persists a trip row whose pickup or dropoff timestamp is
\* missing: neither yellow_taxi_trips table ever holds such a row, a file in
\* a ledger has all its rows with both timestamps in the table, and its
\* rows_imported is the number of those rows.
C23_NoRowWithoutTimestamps ==
    /\ \A r \in BagToSet(duck_trips) : r.pickup # "NULL" /\ r.dropoff # "NULL"
    /\ \A r \in BagToSet(pg_trips) : r.pickup # "NULL" /\ r.dropoff # "NULL"
    /\ \A e \in duck_log :
          /\ e.rows_imported = Cardinality(ValidIdx(e.file_name))
          /\ \A j \in ValidIdx(e.file_name) : Copies(duck_trips, e.file_name, j) >= 1
    /\ \A e \in pg_log :
          /\ e.rows_imported = Cardinality(ValidIdx(e.file_name))
          /\ \A j \in ValidIdx(e.file_name) : Copies(pg_trips, e.file_name, j) >= 1

\* C24: once import_log holds an entry for a file name, no step of an import,
\* repeated, failed or concurrent, removes the entry or changes its
\* rows_imported or import_date: every entry of a ledger is still there,
\* unchanged, after every step.
C24_LedgerEntriesAreKept ==
    [][/\ \A e \in pg_log : e \in pg_log'
       /\ \A e \in duck_log : e \in duck_log']_vars

\* a later run of main handled a file that an earlier run had logged: its
\* ledger write was refused and the entry of the earlier run is still there
C24_Witness ==
    /\ runs > 1
    /\ \E i \in 1..Len(files) :
          /\ fut[i].outcome = "log_import raised"
          /\ fut[i].result.val > 0
          /\ \E e \in pg_log :
                /\ e.file_name = files[i]
                /\ e.import_date = 1
                /\ e.rows_imported = fut[i].result.val

\* C25: ledger writes happen only in the collecting loop of main, one at a
\* time: a step changes import_log only by handling one finished future
\* whose task returned a row count (its COPY, if any, is committed), adding
\* the single entry of that file with that count; no entry is written for a
\* task that returned None.
C25_LedgerWrittenOnlyByCollector ==
    [][pg_log' # pg_log =>
          /\ main_pc = "collecting"
          /\ \E i \in 1..Len(files) :
                /\ fut[i].state = "done"
                /\ fut[i].result.tag = "int"
                /\ fut'[i].state = "collected"
                /\ \A j \in 1..Len(files) : j # i => fut'[j] = fut[j]
                /\ \A k \in ValidIdx(files[i]) : Copies(pg_trips, files[i], k) >= 1
                /\ pg_log' = pg_log \cup {[file_name |-> files[i], import_date |-> runs,
                                           rows_imported |-> fut[i].result.val]}
          /\ pg_trips' = pg_trips]_vars

\* a task that returned None was handled without a ledger entry, and the
\* ledger was written for another file, whose task returned a positive count
C25_Witness ==
    /\ main_pc = "collecting"
    /\ \E i, j \in 1..Len(files) :
          /\ fut[i].outcome = "task returned None"
          /\ LogEntries(pg_log, files[i]) = {}
          /\ fut[j].outcome = "counted"
          /\ fut[j].result.val > 0
          /\ LogEntries(pg_log, files[j]) # {}

\* ---- pipeline: properties ----

\* the download stage or the import stage of the pipeline has done something
DownloadBegun ==
    \/ plan.pc # "idle"
    \/ \E m \in Months : requests[m] > 0 \/ dl_count[m].calls > 0

ImportBegun ==
    \/ main_pc # "idle"
    \/ runs > 0
    \/ fut # << >>
    \/ pg_log # {}
    \/ pg_trips # EmptyBag

\* C21: run_pipeline performs its stages strictly in order: no download is
\* attempted before init_db has completed, no import task is dispatched (the
\* import stage does not even start) before download_month was called for
\* every month of the planner's list, and when init_db raises the run ends
\* with that error, no download and no import having been performed.
C21_PipelineStagesInOrder ==
    /\ DownloadBegun => pipe.init_db = "done"
    /\ ImportBegun =>
          /\ pipe.init_db = "done"
          /\ plan.pc = "returned"
          /\ plan.invoked = plan.month_list
          /\ \A i \in 1..Len(plan.month_list) :
                dl_count[plan.month_list[i]].calls >= 1
    /\ pipe.init_db = "raised" =>
          /\ pipe.pc = "raised"
          /\ pipe.ret.kind = "init_db raised"
          /\ ~DownloadBegun
          /\ ~ImportBegun

\* the import stage is collecting its futures after the download stage
\* called download_month for every month of a list of several months, one of
\* them fetched in this run
C21_Witness ==
    /\ pipe.pc = "import"
    /\ main_pc = "collecting"
    /\ Len(plan.month_list) > 1
    /\ plan.invoked = plan.month_list
    /\ \E m \in Months : dl_count[m].fetched
    /\ \E i \in 1..Len(files) : fut[i].state = "running"

\* C15: a run of run_pipeline in which init_db, the downloads and the import
\* stage all went through (the import stage returned its aggregate) returns a
\* PipelineResponse whose status is one of started, done, error, whose
\* downloaded is the number of months the download stage reports, and whose
\* imported_files and imported_rows are the files_imported and total_rows of
\* the import stage.
C15_PipelineReturnsResponse ==
    (pipe.pc \in {"returned", "raised"} /\ main_ret.kind = "dict") =>
        /\ pipe.pc = "returned"
        /\ pipe.ret.kind = "PipelineResponse"
        /\ pipe.ret.status \in {"started", "done", "error"}
        /\ pipe.ret.downloaded = Len(plan.liste_fichiers)
        /\ pipe.ret.imported_files = main_ret.files_imported
        /\ pipe.ret.imported_rows = main_ret.total_rows

\* ---- downloader: properties ----

\* C5: a download_month call that finds the local file present returns True
\* without issuing a request and leaves the file as it was; so when a month
\* was called at least twice, no call failed and the file was fetched by one
\* of the calls, exactly one request was issued in total and the file is the
\* complete download.  In general the requests issued for a month are one per
\* failed call plus one for the successful fetch.
C5_DownloadIdempotent ==
    /\ (dl_last.result # "none" /\ dl_last.before.exists) =>
          /\ dl_last.result = "True"
          /\ ~dl_last.requested
          /\ local[dl_last.month] = dl_last.before
    /\ \A m \in Months :
          (dl_count[m].calls >= 2 /\ dl_count[m].failed = 0 /\ dl_count[m].fetched) =>
              /\ requests[m] = 1
              /\ local[m] = CompleteFile
    /\ \A m \in Months :
          requests[m] = dl_count[m].failed + (IF dl_count[m].fetched THEN 1 ELSE 0)

\* a month fetched by a first call and called again
C5_Witness ==
    /\ dl_last.month \in Months
    /\ dl_count[dl_last.month].calls = 2
    /\ dl_count[dl_last.month].failed = 0
    /\ dl_count[dl_last.month].fetched
    /\ dl_last.before = CompleteFile
    /\ dl_last.result = "True"

\* C6: after a download_month call that did not succeed the local path of the
\* month does not exist, so file_exists(month) is False; and a call that finds
\* no local file issues a request.
C6_FailedDownloadLeavesNoFile ==
    /\ dl_last.result \notin {"none", "True"} =>
          /\ ~local[dl_last.month].exists
          /\ ~file_exists(local[dl_last.month])
    /\ (dl_last.result # "none" /\ ~dl_last.before.exists) => dl_last.requested

\* a write to the local file failed on the last chunk of the stream
C6_Witness ==
    /\ dl_last.result = "False"
    /\ dl_last.outcome.io = "write"
    /\ dl_last.outcome.at = MaxChunks
    /\ ~local[dl_last.month].exists

\* C7: every download_month call returns a boolean, True exactly when the
\* month's file is present locally on return, False for every fetch that
\* left no file.
C7_DownloadReturnsBoolean ==
    dl_last.result # "none" =>
        /\ dl_last.result \in {"True", "False"}
        /\ (dl_last.result = "True") <=> local[dl_last.month].exists

\* the last month the planner is expected to request when the date is t
UpperBound(t) == IF plan.year = t.year THEN t.month ELSE 12

\* date b is not earlier than date a
NotEarlier(a, b) == b.year > a.year \/ (b.year = a.year /\ b.month >= a.month)

\* the dates the clock showed during the call
DatesOfCall == {plan.at85, plan.at88} \ {NotRead}

\* C8: download_all_available calls download_month once for each month of
\* 1..ub in ascending order, ub being the current month when the configured
\* year is the current one and 12 otherwise, for a date the call ran at; no
\* month is called twice, a failed month does not stop the later ones, and
\* the list returned is 1..ub.
C8_PlannerAttemptsEveryMonthOnce ==
    /\ plan.invoked = [i \in 1..Len(plan.invoked) |-> i]
    /\ \A m \in Months : dl_count[m].calls <= 1 /\ requests[m] <= 1
    /\ plan.pc = "returned" =>
          \E t \in DatesOfCall :
              /\ plan.liste_fichiers = [i \in 1..UpperBound(t) |-> i]
              /\ plan.invoked = [i \in 1..UpperBound(t) |-> i]
              /\ \A m \in Months :
                    dl_count[m].calls = (IF m <= UpperBound(t) THEN 1 ELSE 0)

\* the calls that read the clock once, or twice in the same year: for them
\* the months requested are those of 1..ub, ub taken at the last reading
PlannerWithinOneYear ==
    (plan.pc = "returned" /\ \A t \in DatesOfCall : t.year = plan.at85.year) =>
        \E t \in DatesOfCall :
            /\ \A u \in DatesOfCall : NotEarlier(u, t)
            /\ plan.liste_fichiers = [i \in 1..UpperBound(t) |-> i]
            /\ \A m \in Months :
                  dl_count[m].calls = (IF m <= UpperBound(t) THEN 1 ELSE 0)

\* a run in March of the configured year: February failed, March was fetched
PlannerWithinOneYear_Witness ==
    /\ plan.pc = "returned"
    /\ plan.year = plan.at85.year
    /\ plan.at88.month = 3
    /\ dl_count[2].failed = 1
    /\ local[3] = CompleteFile
    /\ plan.liste_fichiers = <<1, 2, 3>>

====
